---------------------------- MODULE Spec2Model ----------------------------
(***************************************************************************)
(* Model of src/src/lib/parsePackage.js, the package.json -> Docker image  *)
(* matcher.  The file holds two revisions of the module one after the      *)
(* other; the first (lines 1-205) is not valid JavaScript (`async x.y =`,  *)
(* an unclosed call), so the model follows the second (lines 207-381),     *)
(* which is the revision that defines the exported packageParser.          *)
(*                                                                         *)
(* JavaScript strings are modelled as sequences of one-character strings,  *)
(* so that split, the trimming regular expression and the ordering of      *)
(* object keys are computed character by character.  A JavaScript object   *)
(* is the sequence of its <<key, value>> properties in creation order.     *)
(***************************************************************************)
EXTENDS Integers, Sequences, FiniteSets, TLC

VARIABLES
    call,          \* SpecCalls: the function applied and its argument
    returned,      \* SpecCalls: whether the function has been applied
    ret,           \* SpecCalls: what it returned or threw
    manifest,      \* the content found at path_to_pkg
    web,           \* registry: package name -> page served at depURL(name)
    hub,           \* Docker Hub: the body served at the catalog URL
    pc,            \* position of matchDependencies
    packageJSON,   \* matchDependencies: const packageJSON
    fetchedPromises, \* matchDependencies: let fetchedPromises (promise states)
    settled,       \* history: indices of fetchedPromises in settling order
    allPromise,    \* the promise returned by Promise.all(fetchedPromises)
    outcome        \* the promise returned by matchDependencies

vars == <<call, returned, ret, manifest, web, hub, pc, packageJSON,
          fetchedPromises, settled, allPromise, outcome>>

callVars == <<call, returned, ret>>
matchVars == <<manifest, web, hub, pc, packageJSON, fetchedPromises,
               settled, allPromise, outcome>>

---------------------------------------------------------------------------
(* Bounds of the model.                                                    *)

MaxLen == 5       \* characters in the text of a keyword paragraph
MaxKeys == 2      \* members written in one mapping of a manifest
MaxResults == 3   \* entries in the results array of a catalog body
MaxDeps == 2      \* dependencies of the manifest given to matchDependencies

---------------------------------------------------------------------------
(* JavaScript values.                                                      *)

IsWhiteSpace(c) == c \in {" ", "\n"}          \* the regular expression's \s
IsLineTerminator(c) == c = "\n"               \* what . does not match
IsDigit(c) == c \in {"0", "1", "2", "3", "4", "5", "6", "7", "8", "9"}

DigitValue(c) ==
    CASE c = "0" -> 0 [] c = "1" -> 1 [] c = "2" -> 2 [] c = "3" -> 3
      [] c = "4" -> 4 [] c = "5" -> 5 [] c = "6" -> 6 [] c = "7" -> 7
      [] c = "8" -> 8 [] c = "9" -> 9

RECURSIVE ToNumber(_)
ToNumber(s) ==
    IF s = <<>> THEN 0
    ELSE 10 * ToNumber(SubSeq(s, 1, Len(s) - 1)) + DigitValue(s[Len(s)])

\* A property key that is an array index (a canonical non-negative integer):
\* such keys are enumerated first, in ascending numeric order.  The names of
\* the model are short, so the 2^32 - 1 limit is never met.
IsArrayIndex(k) ==
    /\ Len(k) >= 1
    /\ \A i \in 1..Len(k) : IsDigit(k[i])
    /\ Len(k) = 1 \/ k[1] # "0"

NoError == [name |-> "", message |-> "", of |-> <<>>]
Error(n, m, k) == [name |-> n, message |-> m, of |-> k]
Return(v) == [threw |-> FALSE, value |-> v, error |-> NoError]
Throw(e) == [threw |-> TRUE, value |-> <<>>, error |-> e]

\* Objects: sequences of <<key, value>> with pairwise different keys.
Keys(obj) == [i \in 1..Len(obj) |-> obj[i][1]]
HasOwnProperty(obj, k) == \E i \in 1..Len(obj) : obj[i][1] = k
Get(obj, k) == obj[CHOOSE i \in 1..Len(obj) : obj[i][1] = k][2]

\* obj[k] = v: an existing property keeps its place, a new one comes last.
Put(obj, k, v) ==
    IF HasOwnProperty(obj, k)
    THEN [i \in 1..Len(obj) |-> IF obj[i][1] = k THEN <<k, v>> ELSE obj[i]]
    ELSE Append(obj, <<k, v>>)

RECURSIVE AscendingIndices(_)
AscendingIndices(S) ==
    IF S = {} THEN <<>>
    ELSE LET m == CHOOSE k \in S : \A j \in S : ToNumber(k) <= ToNumber(j)
         IN <<m>> \o AscendingIndices(S \ {m})

\* Object.keys(obj): OrdinaryOwnPropertyKeys, array indices ascending and
\* then the other string keys in creation order.
ObjectKeys(obj) ==
    LET ks == Keys(obj)
    IN AscendingIndices({ks[i] : i \in {j \in 1..Len(ks) : IsArrayIndex(ks[j])}})
       \o SelectSeq(ks, LAMBDA k : ~IsArrayIndex(k))

RECURSIVE Flatten(_)
Flatten(ss) == IF ss = <<>> THEN <<>> ELSE Head(ss) \o Flatten(Tail(ss))

Range(s) == {s[i] : i \in 1..Len(s)}

RECURSIVE SeqsUpTo(_, _)
SeqsUpTo(S, n) ==
    IF n = 0 THEN {<<>>}
    ELSE LET P == SeqsUpTo(S, n - 1)
         IN P \cup {Append(p, x) : p \in {q \in P : Len(q) = n - 1}, x \in S}

---------------------------------------------------------------------------
(* packageParser.dependencies                                              *)

\* What fs.readFileSync(path_to_pkg, 'utf8') finds.  A JSON manifest is held
\* as the member names of its two mappings in the order the text writes
\* them (the version specifiers are never read by the program); a text may
\* repeat a member name.
MissingFile == [kind |-> "missing", hasDeps |-> FALSE, deps |-> <<>>,
                hasDev |-> FALSE, dev |-> <<>>]
MalformedFile == [kind |-> "malformed", hasDeps |-> FALSE, deps |-> <<>>,
                  hasDev |-> FALSE, dev |-> <<>>]
JSONFile(hd, d, hv, v) ==
    [kind |-> "json", hasDeps |-> hd, deps |-> d, hasDev |-> hv, dev |-> v]

\* JSON.parse of one mapping: the members are defined one after the other.
RECURSIVE JSONObject(_)
JSONObject(members) ==
    IF members = <<>> THEN <<>>
    ELSE Put(JSONObject(SubSeq(members, 1, Len(members) - 1)),
             members[Len(members)], "version")

RECURSIVE Distinct(_)
Distinct(ks) ==
    IF ks = <<>> THEN <<>>
    ELSE LET init == Distinct(SubSeq(ks, 1, Len(ks) - 1))
         IN IF ks[Len(ks)] \in Range(init) THEN init ELSE Append(init, ks[Len(ks)])

\* Mutant: a name of both mappings is listed once.
dependenciesUnique(file) ==
    IF file.kind = "missing" THEN Throw(Error("Error", "ENOENT", <<>>))
    ELSE IF file.kind = "malformed" THEN Throw(Error("SyntaxError", "JSON.parse", <<>>))
    ELSE IF ~file.hasDeps \/ ~file.hasDev
         THEN Throw(Error("TypeError", "Cannot convert undefined or null to object", <<>>))
    ELSE Return(Distinct(ObjectKeys(JSONObject(file.deps))
                         \o ObjectKeys(JSONObject(file.dev))))

\* Mutant: Object.keys(pj.dependencies || {}), a missing mapping tolerated.
dependenciesLenient(file) ==
    IF file.kind = "missing" THEN Throw(Error("Error", "ENOENT", <<>>))
    ELSE IF file.kind = "malformed" THEN Throw(Error("SyntaxError", "JSON.parse", <<>>))
    ELSE Return(ObjectKeys(JSONObject(file.deps)) \o ObjectKeys(JSONObject(file.dev)))

dependencies(file) ==
    IF file.kind = "missing" THEN Throw(Error("Error", "ENOENT", <<>>))
    ELSE IF file.kind = "malformed" THEN Throw(Error("SyntaxError", "JSON.parse", <<>>))
    ELSE IF ~file.hasDeps \/ ~file.hasDev
         THEN Throw(Error("TypeError", "Cannot convert undefined or null to object", <<>>))
    ELSE Return(ObjectKeys(JSONObject(file.deps)) \o ObjectKeys(JSONObject(file.dev)))

depURL(pkg) == <<"https://www.npmjs.com/package/", pkg>>

---------------------------------------------------------------------------
(* packageParser.parseDependencies                                         *)

\* A registry page is held as the text contents of the elements that the
\* selector '.sidebar>p.list-of-links:first-of-type' matches, in document
\* order; .text() is the combined text of the matched set, '' when empty.
Text(page) == Flatten(page)

\* String.prototype.split(',')
RECURSIVE Split(_)
Split(t) ==
    IF \A i \in 1..Len(t) : t[i] # ","
    THEN <<t>>
    ELSE LET c == CHOOSE i \in 1..Len(t) :
                      t[i] = "," /\ \A j \in 1..(i - 1) : t[j] # ","
         IN <<SubSeq(t, 1, c - 1)>> \o Split(SubSeq(t, c + 1, Len(t)))

\* The first position at or after p that holds no white space (Len + 1 if
\* there is none): where a greedy \s* started at p stops.
RECURSIVE SkipWhiteSpace(_, _)
SkipWhiteSpace(t, p) ==
    IF p > Len(t) \/ ~IsWhiteSpace(t[p]) THEN p ELSE SkipWhiteSpace(t, p + 1)

\* The positions where the closing \S of \S.*\S can stand when the opening
\* \S stands at s: a non-blank character with no line terminator between.
ClosingPositions(t, s) ==
    {e \in (s + 1)..Len(t) :
        /\ ~IsWhiteSpace(t[e])
        /\ \A j \in (s + 1)..(e - 1) : ~IsLineTerminator(t[j])}

Max(S) == CHOOSE m \in S : \A x \in S : x <= m

\* el.replace(/\s*(\S.*\S)\s*/g, '$1') from position p on: the leftmost match
\* is replaced by its group and the scan goes on after the match; a
\* character no match starts at is copied.
RECURSIVE ReplaceFrom(_, _)
ReplaceFrom(t, p) ==
    IF p > Len(t) THEN <<>>
    ELSE LET s == SkipWhiteSpace(t, p)
             E == IF s > Len(t) THEN {} ELSE ClosingPositions(t, s)
         IN IF E = {}
            THEN <<t[p]>> \o ReplaceFrom(t, p + 1)
            ELSE SubSeq(t, s, Max(E))
                 \o ReplaceFrom(t, SkipWhiteSpace(t, Max(E) + 1))

Replace(el) == ReplaceFrom(el, 1)

parseDependencies(html) ==
    LET deps == Split(Text(html))
    IN [i \in 1..Len(deps) |-> Replace(deps[i])]

---------------------------------------------------------------------------
(* packageParser.parseDockers                                              *)

\* The body served by the catalog endpoint: not JSON, JSON without a
\* results array, or JSON whose results are <<name, description>> entries.
MalformedBody == [kind |-> "malformed", hasResults |-> FALSE, results |-> <<>>]
JSONBody(hr, rs) == [kind |-> "json", hasResults |-> hr, results |-> rs]

\* Mutant: a name already present keeps its first description.
RECURSIVE ForEachResultFirstWins(_, _)
ForEachResultFirstWins(dockers, results) ==
    IF results = <<>> THEN dockers
    ELSE ForEachResultFirstWins(
             IF HasOwnProperty(dockers, Head(results)[1]) THEN dockers
             ELSE Put(dockers, Head(results)[1], Head(results)[2]),
             Tail(results))

RECURSIVE ForEachResult(_, _)
ForEachResult(dockers, results) ==
    IF results = <<>> THEN dockers
    ELSE ForEachResult(Put(dockers, Head(results)[1], Head(results)[2]),
                       Tail(results))

parseDockers(dockerJSON) ==
    IF dockerJSON.kind = "malformed"
    THEN Throw(Error("SyntaxError", "JSON.parse", <<>>))
    ELSE IF ~dockerJSON.hasResults
    THEN Throw(Error("TypeError", "Cannot read property 'forEach' of undefined", <<>>))
    ELSE Return(ForEachResult(<<>>, dockerJSON.results))

---------------------------------------------------------------------------
(* request-promise, fetchNPM, fetchDockers and bluebird's Promise.all      *)

Pending == [state |-> "pending", value |-> <<>>, error |-> NoError]
Fulfilled(v) == [state |-> "fulfilled", value |-> v, error |-> NoError]
Rejected(e) == [state |-> "rejected", value |-> <<>>, error |-> e]

\* How a GET ends: a body, a transport failure (RequestError) or a status
\* other than 2xx (StatusCodeError); request-promise rejects on the last two.
Responses == {"ok", "RequestError", "StatusCodeError"}

dockerURL == <<"https://hub.docker.com/v2/repositories/library/?page_size=999", <<>>>>

\* Mutant: a page without the keyword paragraph is an error.
fetchNPMStrict(url, resp, page) ==
    IF resp # "ok" THEN Rejected(Error(resp, "", url))
    ELSE IF page = <<>> THEN Rejected(Error("Error", "no keywords", url))
    ELSE Fulfilled(parseDependencies(page))

\* fetchNPM(depURL), once its request has ended with resp and body page.
fetchNPM(url, resp, page) ==
    IF resp = "ok" THEN Fulfilled(parseDependencies(page))
    ELSE Rejected(Error(resp, "", url))

\* fetchDockers(), once its request has ended with resp and body.
fetchDockers(resp, body) ==
    IF resp = "ok"
    THEN LET dockers == parseDockers(body)
         IN IF dockers.threw THEN Rejected(dockers.error)
            ELSE Fulfilled(dockers.value)
    ELSE Rejected(Error(resp, "", dockerURL))

\* Mutant: the promises are awaited one after the other, so the rejection
\* that is seen is the one earliest in the array, once all before it ended.
PromiseAllInTurn(all, promises, i) ==
    IF all.state # "pending" THEN all
    ELSE IF \E j \in 1..Len(promises) :
                /\ promises[j].state = "rejected"
                /\ \A k \in 1..(j - 1) : promises[k].state = "fulfilled"
    THEN Rejected(promises[CHOOSE j \in 1..Len(promises) :
                      /\ promises[j].state = "rejected"
                      /\ \A k \in 1..(j - 1) : promises[k].state = "fulfilled"].error)
    ELSE IF \A j \in 1..Len(promises) : promises[j].state = "fulfilled"
    THEN Fulfilled([j \in 1..Len(promises) |-> promises[j].value])
    ELSE all

\* Promise.all(promises), after promises[i] has settled: rejected with the
\* first rejection, fulfilled with the values in array order once every
\* promise is fulfilled.
PromiseAll(all, promises, i) ==
    IF all.state # "pending" THEN all
    ELSE IF promises[i].state = "rejected" THEN Rejected(promises[i].error)
    ELSE IF \A j \in 1..Len(promises) : promises[j].state = "fulfilled"
    THEN Fulfilled([j \in 1..Len(promises) |-> promises[j].value])
    ELSE all

---------------------------------------------------------------------------
(* packageParser.matchDependencies                                         *)

packageURLs == [i \in 1..Len(packageJSON) |-> depURL(packageJSON[i])]

\* Mutant: the loop is left after the first push.
PushedOne == Len(fetchedPromises) >= IF packageURLs = <<>> THEN 1 ELSE 2

\* The forEach of lines 350-354 has pushed one promise for every URL.
AllPushed == Len(fetchedPromises) = Len(packageURLs) + 1

\* Mutant: the page results are taken in the order the fetches completed.
fetchedDataAsCompleted(all) ==
    <<Head(all.value)>>
    \o [k \in 1..Len(SelectSeq(settled, LAMBDA i : i # 1)) |->
          fetchedPromises[SelectSeq(settled, LAMBDA i : i # 1)[k]].value]

\* const [...fetchedData] = await Promise.all(fetchedPromises)
fetchedData(all) == all.value

\* Mutant: the test for a matching Docker module is left out.
RECURSIVE ForEachKeywordAny(_, _, _)
ForEachKeywordAny(depList, depKeywords, dockerKeywords) ==
    IF depKeywords = <<>> THEN depList
    ELSE ForEachKeywordAny(
             IF ~HasOwnProperty(depList, Head(depKeywords))
             THEN Put(depList, Head(depKeywords), TRUE) ELSE depList,
             Tail(depKeywords), dockerKeywords)

\* depKeywords.forEach(kw => ...): catalog names are Docker repository names
\* (lower case letters and digits), so none of them shadows hasOwnProperty.
RECURSIVE ForEachKeyword(_, _, _)
ForEachKeyword(depList, depKeywords, dockerKeywords) ==
    IF depKeywords = <<>> THEN depList
    ELSE LET kw == Head(depKeywords)
         IN ForEachKeyword(
                IF ~HasOwnProperty(depList, kw) /\ HasOwnProperty(dockerKeywords, kw)
                THEN Put(depList, kw, TRUE) ELSE depList,
                Tail(depKeywords), dockerKeywords)

\* Lines 363-380, from the data Promise.all delivered.
Match(data) ==
    LET dockerKeywords == Head(data)
        depKeywords == Flatten(Tail(data))
    IN ObjectKeys(ForEachKeyword(<<>>, depKeywords, dockerKeywords))

\* Lines 334-346: the manifest is read; if that throws the call is rejected,
\* else fetchDockers() starts the catalog request.
Begin ==
    /\ pc = "start"
    /\ LET deps == dependencies(manifest)
       IN IF deps.threw
          THEN /\ pc' = "rejected"
               /\ outcome' = Rejected(deps.error)
               /\ UNCHANGED <<packageJSON, fetchedPromises>>
          ELSE /\ pc' = "push"
               /\ packageJSON' = deps.value
               /\ fetchedPromises' = <<Pending>>
               /\ UNCHANGED outcome
    /\ UNCHANGED <<manifest, web, hub, settled, allPromise, callVars>>

\* Lines 350-354, one turn of the forEach: fetchNPM(url) starts a request.
PushFetchNPM ==
    /\ pc = "push"
    /\ ~AllPushed
    /\ fetchedPromises' = Append(fetchedPromises, Pending)
    /\ UNCHANGED <<manifest, web, hub, pc, packageJSON, settled, allPromise,
                   outcome, callVars>>

\* Line 359: Promise.all over the array, and the function is suspended.
Await ==
    /\ pc = "push"
    /\ AllPushed
    /\ pc' = "await"
    /\ allPromise' = Pending
    /\ UNCHANGED <<manifest, web, hub, packageJSON, fetchedPromises, settled,
                   outcome, callVars>>

\* The event loop runs a request's completion only while no JavaScript is
\* running: matchDependencies is suspended or has ended.
EventLoopFree == pc \in {"await", "resolved", "rejected"}

\* The request behind fetchedPromises[i] ends, and fetchDockers (i = 1) or
\* fetchNPM goes on after its await; Promise.all sees the settlement.
Settle(i, resp) ==
    /\ EventLoopFree
    /\ i \in 1..Len(fetchedPromises)
    /\ fetchedPromises[i].state = "pending"
    /\ LET p == IF i = 1 THEN fetchDockers(resp, hub)
                ELSE fetchNPM(packageURLs[i - 1], resp, web[packageJSON[i - 1]])
           ps == [fetchedPromises EXCEPT ![i] = p]
       IN /\ fetchedPromises' = ps
          /\ allPromise' = PromiseAll(allPromise, ps, i)
    /\ settled' = Append(settled, i)
    /\ UNCHANGED <<manifest, web, hub, pc, packageJSON, outcome, callVars>>

\* Lines 359-380, after the await: a rejection of Promise.all is thrown out
\* of the function, else the match is computed and returned.
Resume ==
    /\ pc = "await"
    /\ allPromise.state # "pending"
    /\ IF allPromise.state = "rejected"
       THEN /\ pc' = "rejected"
            /\ outcome' = Rejected(allPromise.error)
       ELSE /\ pc' = "resolved"
            /\ outcome' = Fulfilled(Match(fetchedData(allPromise)))
    /\ UNCHANGED <<manifest, web, hub, packageJSON, fetchedPromises, settled,
                   allPromise, callVars>>

---------------------------------------------------------------------------
(* Inputs.                                                                 *)

Chars == {"a", " ", "\n", ","}
PkgNames == {<<"q">>, <<"1">>, <<"2">>, <<"1", "0">>}
ImageNames == {<<"q">>, <<"1">>}
Descriptions == {"Official build of Nginx.", "Busybox base image."}

Manifests ==
    {MissingFile, MalformedFile, JSONFile(FALSE, <<>>, FALSE, <<>>)}
    \cup {JSONFile(TRUE, d, FALSE, <<>>) : d \in SeqsUpTo(PkgNames, MaxKeys)}
    \cup {JSONFile(FALSE, <<>>, TRUE, v) : v \in SeqsUpTo(PkgNames, MaxKeys)}
    \cup {JSONFile(TRUE, d, TRUE, v) : d \in SeqsUpTo(PkgNames, MaxKeys),
                                       v \in SeqsUpTo(PkgNames, MaxKeys)}

Pages ==
    {<<>>}
    \cup {<<t>> : t \in SeqsUpTo(Chars, MaxLen)}
    \cup {<<t, u>> : t \in SeqsUpTo(Chars, 1), u \in SeqsUpTo(Chars, 1)}

Bodies ==
    {MalformedBody, JSONBody(FALSE, <<>>)}
    \cup {JSONBody(TRUE, rs) :
            rs \in SeqsUpTo(ImageNames \X Descriptions, MaxResults)}

\* The inputs of matchDependencies: manifests over two package names, the
\* page of each, and a catalog.
DepNames == {<<"q">>, <<"1">>}

SmallManifests ==
    {MissingFile, MalformedFile, JSONFile(TRUE, <<<<"q">>>>, FALSE, <<>>),
     JSONFile(FALSE, <<>>, TRUE, <<<<"q">>>>)}
    \cup {JSONFile(TRUE, dv[1], TRUE, dv[2]) :
            dv \in {x \in SeqsUpTo(DepNames, MaxDeps) \X SeqsUpTo(DepNames, MaxDeps) :
                       Len(x[1]) + Len(x[2]) <= MaxDeps}}

NoParagraph == <<>>
PageTwoOne == << <<"2", ",", "1", ",", "x", "y">> >>
PageDb == << <<"d", "b", ",", " ", "d", "b", ",", "1", ",", "z", "z">> >>
SmallPages == {NoParagraph, PageTwoOne, PageDb}

BodyAll == JSONBody(TRUE, << <<<<"1">>, "one">>, <<<<"d", "b">>, "db">>,
                             <<<<"2">>, "two">>, <<<<"x", "y">>, "xy">> >>)
BodyTwo == JSONBody(TRUE, << <<<<"2">>, "two">>, <<<<"2">>, "deux">> >>)
SmallBodies == {BodyAll, BodyTwo, MalformedBody}

NoCall == [fn |-> "none", arg |-> <<>>]

---------------------------------------------------------------------------
(* Spec: one call of matchDependencies.                                    *)

Init ==
    /\ call = NoCall /\ returned = FALSE /\ ret = Return(<<>>)
    /\ manifest \in SmallManifests
    /\ web \in [DepNames -> SmallPages]
    /\ hub \in SmallBodies
    /\ pc = "start"
    /\ packageJSON = <<>>
    /\ fetchedPromises = <<>>
    /\ settled = <<>>
    /\ allPromise = Pending
    /\ outcome = Pending

Next ==
    \/ Begin
    \/ PushFetchNPM
    \/ Await
    \/ \E i \in 1..Len(fetchedPromises), resp \in Responses : Settle(i, resp)
    \/ Resume

Spec == Init /\ [][Next]_vars

---------------------------------------------------------------------------
(* SpecCalls: one application of dependencies, parseDependencies or        *)
(* parseDockers to an argument drawn from the bounded inputs.              *)

Calls ==
    {[fn |-> "dependencies", arg |-> m] : m \in Manifests}
    \cup {[fn |-> "parseDependencies", arg |-> p] : p \in Pages}
    \cup {[fn |-> "parseDockers", arg |-> b] : b \in Bodies}

InitCalls ==
    /\ call \in Calls /\ returned = FALSE /\ ret = Return(<<>>)
    /\ manifest = MissingFile
    /\ web = <<>>
    /\ hub = MalformedBody
    /\ pc = "idle"
    /\ packageJSON = <<>>
    /\ fetchedPromises = <<>>
    /\ settled = <<>>
    /\ allPromise = Pending
    /\ outcome = Pending

CallDependencies ==
    /\ ~returned /\ call.fn = "dependencies"
    /\ ret' = dependencies(call.arg)
    /\ returned' = TRUE
    /\ UNCHANGED <<call, matchVars>>

CallParseDependencies ==
    /\ ~returned /\ call.fn = "parseDependencies"
    /\ ret' = Return(parseDependencies(call.arg))
    /\ returned' = TRUE
    /\ UNCHANGED <<call, matchVars>>

CallParseDockers ==
    /\ ~returned /\ call.fn = "parseDockers"
    /\ ret' = parseDockers(call.arg)
    /\ returned' = TRUE
    /\ UNCHANGED <<call, matchVars>>

NextCalls == CallDependencies \/ CallParseDependencies \/ CallParseDockers

SpecCalls == InitCalls /\ [][NextCalls]_vars

---------------------------------------------------------------------------
(* Properties.                                                             *)

IsValidManifest(file) == file.kind = "json" /\ file.hasDeps /\ file.hasDev

FirstPos(ks, k) == CHOOSE i \in 1..Len(ks) : ks[i] = k /\ \A j \in 1..(i - 1) : ks[j] # k

NoRepeat(r) == \A i, j \in 1..Len(r) : i # j => r[i] # r[j]

\* r lists every member of ks once, the array indices first in ascending
\* numeric order, then the other names in the order of their first
\* occurrence in ks.
IsOwnKeyOrder(r, ks) ==
    /\ Range(r) = Range(ks)
    /\ NoRepeat(r)
    /\ \A i, j \in 1..Len(r) : i < j =>
          /\ IsArrayIndex(r[j]) => IsArrayIndex(r[i]) /\ ToNumber(r[i]) < ToNumber(r[j])
          /\ ~IsArrayIndex(r[i]) => FirstPos(ks, r[i]) < FirstPos(ks, r[j])

\* The text without its leading and trailing white space.
Trim(t) ==
    LET solid == {i \in 1..Len(t) : ~IsWhiteSpace(t[i])}
    IN IF solid = {} THEN <<>>
       ELSE SubSeq(t, CHOOSE i \in solid : \A j \in solid : i <= j, Max(solid))

Started == fetchedPromises # <<>>
AllFulfilled == \A i \in 1..Len(fetchedPromises) : fetchedPromises[i].state = "fulfilled"
SomeRejected == \E i \in 1..Len(fetchedPromises) : fetchedPromises[i].state = "rejected"

\* The index in fetchedPromises of the fetch that was rejected first.
FirstRejected ==
    settled[CHOOSE k \in 1..Len(settled) :
        /\ fetchedPromises[settled[k]].state = "rejected"
        /\ \A j \in 1..(k - 1) : fetchedPromises[settled[j]].state # "rejected"]

\* What the fetches delivered: the catalog's names and each page's keywords.
CatalogNames == Range(Keys(fetchedPromises[1].value))
PageKeywords(i) == fetchedPromises[i + 1].value
ScrapedKeywords == UNION {Range(PageKeywords(i)) : i \in 1..(Len(fetchedPromises) - 1)}

C2_FailFast ==
    /\ pc = "resolved" => AllFulfilled
    /\ pc = "await" /\ SomeRejected =>
          allPromise = Rejected(fetchedPromises[FirstRejected].error)
    /\ pc = "rejected" /\ Started =>
          /\ SomeRejected
          /\ outcome = Rejected(fetchedPromises[FirstRejected].error)

C2_Witness ==
    /\ pc = "rejected"
    /\ Len(fetchedPromises) = 3
    /\ fetchedPromises[2].state = "rejected"
    /\ fetchedPromises[3].state = "rejected"
    /\ fetchedPromises[1].state = "fulfilled"
    /\ FirstRejected = 3
    /\ fetchedPromises[2].error # fetchedPromises[3].error

\* C3: every one of the N registry fetches and the catalog fetch is started
\* before any of them is waited on, none completes before that, and a
\* result is returned only when all N + 1 have completed, holding the
\* matches of every page.
C3_AllStartedThenJoined ==
    /\ pc \in {"start", "push"} => settled = <<>>
    /\ pc \in {"await", "resolved"} \/ (pc = "rejected" /\ Started) =>
          Len(fetchedPromises) = Len(packageJSON) + 1
    /\ pc = "resolved" =>
          /\ Len(settled) = Len(packageJSON) + 1
          /\ AllFulfilled
          /\ \A i \in 1..Len(packageJSON) :
                \A kw \in Range(parseDependencies(web[packageJSON[i]])) :
                    HasOwnProperty(parseDockers(hub).value, kw)
                        => kw \in Range(outcome.value)

C3_Witness ==
    /\ pc = "resolved"
    /\ Len(packageJSON) = 2
    /\ settled = <<3, 1, 2>>
    /\ outcome.value # <<>>

\* C4: if reading the manifest fails (file missing, malformed, or one of the
\* two mappings absent), matchDependencies fails and no fetch is issued.
C4_NoFetchOnManifestError ==
    ~IsValidManifest(manifest) =>
        /\ fetchedPromises = <<>>
        /\ settled = <<>>
        /\ pc \in {"start", "rejected"}
        /\ pc = "rejected" => outcome.state = "rejected"

C4_Witness ==
    /\ pc = "rejected"
    /\ manifest.kind = "json" /\ manifest.hasDeps /\ ~manifest.hasDev
    /\ outcome.error.name = "TypeError"

C6_TrimsEveryToken ==
    returned /\ call.fn = "parseDependencies" /\ Len(call.arg) = 1 =>
        LET pieces == Split(call.arg[1])
        IN ret = Return([i \in 1..Len(pieces) |-> Trim(pieces[i])])

\* C7: for a body with a results array, parseDockers returns a mapping whose
\* keys are exactly the names in results, each mapped to the description of
\* the last entry with that name, and a repeated name raises no error.
C7_LastWriteWins ==
    returned /\ call.fn = "parseDockers" /\ call.arg.kind = "json" /\ call.arg.hasResults =>
        LET rs == call.arg.results
        IN /\ ~ret.threw
           /\ NoRepeat(Keys(ret.value))
           /\ Range(Keys(ret.value)) = {rs[i][1] : i \in 1..Len(rs)}
           /\ \A i \in 1..Len(rs) :
                 (\A j \in (i + 1)..Len(rs) : rs[j][1] # rs[i][1])
                     => Get(ret.value, rs[i][1]) = rs[i][2]

C7_Witness ==
    /\ returned /\ call.fn = "parseDockers"
    /\ Len(call.arg.results) = 3
    /\ call.arg.results[1][1] = call.arg.results[3][1]
    /\ call.arg.results[1][2] # call.arg.results[3][2]
    /\ Len(ret.value) = 2

\* C8: when the GET of a registry page or of the catalog fails, the fetch
\* fails with a wrapped error naming the stage (registry fetch failed,
\* catalog fetch failed), and matchDependencies surfaces that error.
C8_WrappedFetchError ==
    /\ \A i \in 1..Len(fetchedPromises) :
          fetchedPromises[i].state = "rejected" /\ ~(i = 1 /\ parseDockers(hub).threw) =>
              /\ fetchedPromises[i].error.name = "Error"
              /\ fetchedPromises[i].error.message =
                    IF i = 1 THEN "catalog fetch failed" ELSE "registry fetch failed"
    /\ pc = "rejected" /\ Started /\ ~parseDockers(hub).threw =>
          /\ outcome.error.name = "Error"
          /\ outcome.error.message \in {"catalog fetch failed", "registry fetch failed"}

\* C9: a fetched registry page without the keyword paragraph does not fail:
\* its fetch yields an empty sequence or one empty string, it is rejected
\* only when the GET itself fails, and matchDependencies is not failed by it.
C9_MissingParagraphIsLenient ==
    /\ \A i \in 2..Len(fetchedPromises) :
          web[packageJSON[i - 1]] = NoParagraph =>
              /\ fetchedPromises[i].state = "fulfilled" =>
                    fetchedPromises[i].value \in {<<>>, << <<>> >>}
              /\ fetchedPromises[i].state = "rejected" =>
                    fetchedPromises[i].error.name \in {"RequestError", "StatusCodeError"}
    /\ pc = "rejected" /\ Started =>
          \/ FirstRejected = 1
          \/ outcome.error.name \in {"RequestError", "StatusCodeError"}

C9_Witness ==
    /\ pc = "resolved"
    /\ Len(packageJSON) = 2
    /\ web[packageJSON[1]] = NoParagraph
    /\ fetchedPromises[2].value = << <<>> >>
    /\ outcome.value # <<>>

\* The keywords of the pages of the manifest's dependencies, concatenated in
\* manifest order, that are names of the catalog served.
ExpectedMatches ==
    SelectSeq(Flatten([i \in 1..Len(packageJSON) |->
                          parseDependencies(web[packageJSON[i]])]),
              LAMBDA kw : HasOwnProperty(parseDockers(hub).value, kw))

===========================================================================
